---- MODULE Spec2Model ----
(***************************************************************************)
(* The Mermaid MCP server of src/mcp_server.py: the call-tool dispatcher,  *)
(* its four handlers with their outbound call to the rendering service,    *)
(* and the diagram heuristics (_detect_diagram_type, _estimate_complexity, *)
(* the suggestion rules of _suggest_improvements).                         *)
(*                                                                         *)
(* A diagram source is a sequence of one-character strings, so that        *)
(* lower(), strip(), startswith(), `in` and splitlines() are computed on   *)
(* characters as Python computes them.  Every other text (a theme, a       *)
(* reply body, an exception message, a piece of a response) is a string.   *)
(* A response text is the sequence of the pieces its f-string joins.       *)
(***************************************************************************)
EXTENDS Integers, Sequences, FiniteSets, TLC

VARIABLES
    api_base_url,   \* self.api_base_url
    calls,          \* per dispatch: the coroutine frame of handle_call_tool
    sent,           \* per dispatch: the outbound requests issued, in order
    heur            \* the diagram heuristics applied to one source text

vars == <<api_base_url, calls, sent, heur>>

---------------------------------------------------------------------------
(* Bounds of the model.                                                    *)

\* dispatches the transport may have in flight at once
NumDispatches == 2
\* filler lines appended to a source text
MaxPadLines == 22
\* slack around the character thresholds of _estimate_complexity
CharSlack == 2

---------------------------------------------------------------------------
(* Python str operations on character sequences.                           *)

S_graph == <<"g", "r", "a", "p", "h">>
S_flowchart == <<"f", "l", "o", "w", "c", "h", "a", "r", "t">>
S_sequenceDiagram == <<"s", "e", "q", "u", "e", "n", "c", "e", "D", "i", "a", "g", "r", "a", "m">>
S_classDiagram == <<"c", "l", "a", "s", "s", "D", "i", "a", "g", "r", "a", "m">>
S_stateDiagram == <<"s", "t", "a", "t", "e", "D", "i", "a", "g", "r", "a", "m">>
S_gantt == <<"g", "a", "n", "t", "t">>
S_pie == <<"p", "i", "e">>
S_journey == <<"j", "o", "u", "r", "n", "e", "y">>
S_gitGraph == <<"g", "i", "t", "G", "r", "a", "p", "h">>
S_sequencediagram == <<"s", "e", "q", "u", "e", "n", "c", "e", "d", "i", "a", "g", "r", "a", "m">>
S_classdiagram == <<"c", "l", "a", "s", "s", "d", "i", "a", "g", "r", "a", "m">>
S_statediagram == <<"s", "t", "a", "t", "e", "d", "i", "a", "g", "r", "a", "m">>
S_gitgraph == <<"g", "i", "t", "g", "r", "a", "p", "h">>
S_TD == <<"T", "D">>
S_LR == <<"L", "R">>
S_TB == <<"T", "B">>
S_RL == <<"R", "L">>
S_class == <<"c", "l", "a", "s", "s">>
S_style == <<"s", "t", "y", "l", "e">>
S_arrow == <<"-", "-", ">">>
S_line == <<"-", "-", "-">>
S_brace == <<"{">>
S_bracket == <<"[">>
S_paren == <<"(">>
S_participant == <<"p", "a", "r", "t", "i", "c", "i", "p", "a", "n", "t">>
S_note == <<"n", "o", "t", "e">>

\* str.lower() on one character
LowerChar(c) ==
    CASE c = "A" -> "a" [] c = "B" -> "b" [] c = "C" -> "c" [] c = "D" -> "d"
      [] c = "E" -> "e" [] c = "F" -> "f" [] c = "G" -> "g" [] c = "H" -> "h"
      [] c = "I" -> "i" [] c = "J" -> "j" [] c = "K" -> "k" [] c = "L" -> "l"
      [] c = "M" -> "m" [] c = "N" -> "n" [] c = "O" -> "o" [] c = "P" -> "p"
      [] c = "Q" -> "q" [] c = "R" -> "r" [] c = "S" -> "s" [] c = "T" -> "t"
      [] c = "U" -> "u" [] c = "V" -> "v" [] c = "W" -> "w" [] c = "X" -> "x"
      [] c = "Y" -> "y" [] c = "Z" -> "z" [] OTHER -> c

\* str.lower()
lower(s) == [i \in 1..Len(s) |-> LowerChar(s[i])]

\* the characters str.strip() removes (those of them the model's texts use)
Whitespace == {" ", "\t", "\n", "\r", "\f"}

\* str.strip()
strip(s) ==
    IF \A i \in 1..Len(s) : s[i] \in Whitespace THEN <<>>
    ELSE LET lo == CHOOSE i \in 1..Len(s) :
                       s[i] \notin Whitespace /\ \A j \in 1..(i - 1) : s[j] \in Whitespace
             hi == CHOOSE i \in 1..Len(s) :
                       s[i] \notin Whitespace /\ \A j \in (i + 1)..Len(s) : s[j] \in Whitespace
         IN  SubSeq(s, lo, hi)

\* str.startswith(p)
startswith(s, p) == Len(s) >= Len(p) /\ SubSeq(s, 1, Len(p)) = p

\* p in s
contains(s, p) == \E i \in 0..(Len(s) - Len(p)) : SubSeq(s, i + 1, i + Len(p)) = p

\* the line boundaries of str.splitlines() (those the model's texts use);
\* "\r\n" is one boundary
LineBreaks == {"\n", "\r", "\f"}

\* the positions at which a line boundary of s ends
BreakEnds(s) ==
    {e \in 1..Len(s) :
        /\ s[e] \in LineBreaks
        /\ ~(s[e] = "\r" /\ e < Len(s) /\ s[e + 1] = "\n")}

\* str.splitlines(): the lines without their boundaries; a boundary at the
\* very end opens no further line
splitlines(s) ==
    LET ends == BreakEnds(s)
        starts == {p \in {1} \cup {e + 1 : e \in ends} : p <= Len(s)}
        nth(k) == CHOOSE p \in starts : Cardinality({q \in starts : q <= p}) = k
        stop(p) ==
            IF \E e \in ends : e >= p
            THEN LET e == CHOOSE x \in ends : x >= p /\ \A y \in ends : y >= p => x <= y
                 IN  IF s[e] = "\n" /\ e > p /\ s[e - 1] = "\r" THEN e - 2 ELSE e - 1
            ELSE Len(s)
    IN  [k \in 1..Cardinality(starts) |-> SubSeq(s, nth(k), stop(nth(k)))]

---------------------------------------------------------------------------
(* Diagram heuristics.                                                     *)

\* _detect_diagram_type without lower()
_detect_diagram_type_cased(code) ==
    LET code_lower == strip(code)
    IN  IF startswith(code_lower, S_sequencediagram) THEN "sequence"
        ELSE IF startswith(code_lower, S_classdiagram) THEN "class"
        ELSE IF startswith(code_lower, S_statediagram) THEN "state"
        ELSE IF startswith(code_lower, S_gantt) THEN "gantt"
        ELSE IF startswith(code_lower, S_pie) THEN "pie"
        ELSE IF startswith(code_lower, S_journey) THEN "journey"
        ELSE IF startswith(code_lower, S_gitgraph) THEN "git"
        ELSE IF startswith(code_lower, S_graph) \/ startswith(code_lower, S_flowchart)
             THEN "flowchart"
        ELSE "unknown"

\* MermaidMCPServer._detect_diagram_type
_detect_diagram_type(code) ==
    LET code_lower == strip(lower(code))
    IN  IF startswith(code_lower, S_sequencediagram) THEN "sequence"
        ELSE IF startswith(code_lower, S_classdiagram) THEN "class"
        ELSE IF startswith(code_lower, S_statediagram) THEN "state"
        ELSE IF startswith(code_lower, S_gantt) THEN "gantt"
        ELSE IF startswith(code_lower, S_pie) THEN "pie"
        ELSE IF startswith(code_lower, S_journey) THEN "journey"
        ELSE IF startswith(code_lower, S_gitgraph) THEN "git"
        ELSE IF startswith(code_lower, S_graph) \/ startswith(code_lower, S_flowchart)
             THEN "flowchart"
        ELSE "unknown"

\* _estimate_complexity with >= for >
_estimate_complexity_ge(code) ==
    LET lines == Len(splitlines(code))
        chars == Len(code)
    IN  IF lines >= 20 \/ chars >= 1000 THEN "High"
        ELSE IF lines >= 10 \/ chars >= 500 THEN "Medium"
        ELSE "Low"

\* MermaidMCPServer._estimate_complexity
_estimate_complexity(code) ==
    LET lines == Len(splitlines(code))
        chars == Len(code)
    IN  IF lines > 20 \/ chars > 1000 THEN "High"
        ELSE IF lines > 10 \/ chars > 500 THEN "Medium"
        ELSE "Low"

---------------------------------------------------------------------------
(* Python values as they arrive in an argument mapping: a str whose        *)
(* characters matter (t = "text", cs), a str used as a whole (t = "str",   *)
(* s), an int (n) or None.                                                 *)

PyText(c) == [t |-> "text", s |-> "", n |-> 0, cs |-> c]
PyStr(x) == [t |-> "str", s |-> x, n |-> 0, cs |-> <<>>]
PyInt(k) == [t |-> "int", s |-> "", n |-> k, cs |-> <<>>]
None == [t |-> "none", s |-> "", n |-> 0, cs |-> <<>>]

\* bool(v)
Truthy(v) ==
    CASE v.t = "none" -> FALSE
      [] v.t = "int" -> v.n /= 0
      [] v.t = "str" -> v.s /= ""
      [] v.t = "text" -> v.cs /= <<>>

\* v == "<literal>"
EqStr(v, lit) == v.t = "str" /\ v.s = lit

\* type(v).__name__
TypeName(v) ==
    CASE v.t = "none" -> "NoneType"
      [] v.t = "int" -> "int"
      [] OTHER -> "str"

SUG_EMPTY == "- Code is empty. Add a diagram type declaration."
SUG_MISSING == "- Missing diagram type declaration. Start with 'graph TD', 'sequenceDiagram', etc."
SUG_DIRECTION == "- Consider specifying graph direction: TD (top-down), LR (left-right), etc."
SUG_STYLING == "- Consider adding styling with classes or style definitions for better visual appeal"
SUG_SPLIT == "- High complexity detected. Consider breaking into multiple smaller diagrams"
SUG_ARROWS == "- Use arrows (-->) to connect flowchart nodes"
SUG_SHAPES == "- Use different node shapes: [] for rectangles, {} for diamonds, () for circles"
SUG_PARTICIPANTS == "- Define participants explicitly for cleaner sequence diagrams"
SUG_NOTES == "- Consider adding notes to clarify important interactions"
SUG_GOOD == "- Code looks good! Consider experimenting with themes for different visual styles"

\* the declaration keywords of the startswith(...) tuple
DeclKeywords ==
    {S_graph, S_flowchart, S_sequenceDiagram, S_classDiagram, S_stateDiagram,
     S_gantt, S_pie, S_journey, S_gitGraph}

\* _suggest_improvements: the diagram type it analyses
ResolveType(code, diagram_type) ==
    IF ~Truthy(diagram_type) THEN PyStr(_detect_diagram_type(code)) ELSE diagram_type

\* one `if cond: suggestions.append(s)`
AppendIf(cond, s) == IF cond THEN <<s>> ELSE <<>>

\* the fallback appended without looking at the list
fallback_always(suggestions) == suggestions \o <<SUG_GOOD>>

\* _suggest_improvements: `if not suggestions: suggestions.append(...)`
fallback(suggestions) == IF suggestions = <<>> THEN <<SUG_GOOD>> ELSE suggestions

\* _suggest_improvements: the suggestions list it builds
Suggestions(code, diagram_type) ==
    LET lines == splitlines(strip(code))
        declared ==
            \E i \in 1..Len(lines) : \E kw \in DeclKeywords : startswith(strip(lines[i]), kw)
        syntax ==
            IF lines = <<>> THEN <<SUG_EMPTY>>
            ELSE IF ~declared THEN <<SUG_MISSING>>
            ELSE <<>>
        direction ==
            AppendIf(/\ contains(code, S_graph)
                     /\ ~contains(code, S_TD) /\ ~contains(code, S_LR)
                     /\ ~contains(code, S_TB) /\ ~contains(code, S_RL),
                     SUG_DIRECTION)
        styling ==
            AppendIf(Len(lines) > 5 /\ ~contains(code, S_class) /\ ~contains(code, S_style),
                     SUG_STYLING)
        complexity == _estimate_complexity(code)
        split == AppendIf(complexity = "High", SUG_SPLIT)
        specific ==
            IF EqStr(diagram_type, "flowchart")
            THEN AppendIf(~contains(code, S_arrow) /\ ~contains(code, S_line), SUG_ARROWS)
                 \o AppendIf(/\ ~contains(code, S_brace) /\ ~contains(code, S_bracket)
                             /\ ~contains(code, S_paren),
                             SUG_SHAPES)
            ELSE IF EqStr(diagram_type, "sequence")
            THEN AppendIf(~contains(code, S_participant), SUG_PARTICIPANTS)
                 \o AppendIf(~contains(code, S_note), SUG_NOTES)
            ELSE <<>>
        found == syntax \o direction \o styling \o split \o specific
    IN  fallback(found)

---------------------------------------------------------------------------
(* The source texts the heuristics are applied to.                         *)

Leads == { <<>>, <<" ">>, <<"\n", "\t">> }

Heads ==
    { <<>>,
      <<"g", "r", "a", "p", "h">>,
      <<"G", "R", "A", "P", "H">>,
      <<"G", "r", "a", "p", "h">>,
      <<"f", "l", "o", "w", "c", "h", "a", "r", "t">>,
      <<"F", "l", "o", "w", "C", "h", "a", "r", "t">>,
      <<"s", "e", "q", "u", "e", "n", "c", "e", "D", "i", "a", "g", "r", "a", "m">>,
      <<"s", "e", "q", "u", "e", "n", "c", "e", "d", "i", "a", "g", "r", "a", "m">>,
      <<"c", "l", "a", "s", "s", "D", "i", "a", "g", "r", "a", "m">>,
      <<"C", "L", "A", "S", "S", "D", "I", "A", "G", "R", "A", "M">>,
      <<"s", "t", "a", "t", "e", "D", "i", "a", "g", "r", "a", "m">>,
      <<"s", "t", "a", "t", "e", "d", "i", "a", "g", "r", "a", "m">>,
      <<"g", "a", "n", "t", "t">>,
      <<"G", "a", "n", "t", "t">>,
      <<"p", "i", "e">>,
      <<"P", "I", "E">>,
      <<"j", "o", "u", "r", "n", "e", "y">>,
      <<"g", "i", "t", "G", "r", "a", "p", "h">>,
      <<"g", "i", "t", "g", "r", "a", "p", "h">>,
      <<"f", "o", "o", "b", "a", "r">>,
      <<"g", "r", "a">>,
      <<"p", "i", "e", "c", "h", "a", "r", "t">>,
      <<"A">> }

Tails ==
    { <<>>,
      <<" ", "T", "D">>,
      <<"\n", "A", "-", "-", ">", "B">>,
      <<" ", "L", "R", "\n", "A", "-", "-", "-", "B">>,
      <<"\n", "A", "[", "x", "]">>,
      <<"\n", "B", "{", "y", "}">>,
      <<" ", "T", "D", "\n", "A", "(", "z", ")", "-", "-", ">", "B">>,
      <<"\n", "p", "a", "r", "t", "i", "c", "i", "p", "a", "n", "t", " ", "A">>,
      <<"\n", "n", "o", "t", "e", " ", "o", "v", "e", "r", " ", "A">>,
      <<"\n", "p", "a", "r", "t", "i", "c", "i", "p", "a", "n", "t", " ", "A", "\n", "n", "o", "t", "e", " ", "o", "v", "e", "r", " ", "A">>,
      <<"\n", "c", "l", "a", "s", "s", " ", "A">>,
      <<"\n", "s", "t", "y", "l", "e", " ", "A", " ", "f", "i", "l", "l">>,
      <<"\n">>,
      <<"\r", "\n", "A">>,
      <<"\r", "A", "\f", "B">>,
      <<" ">> }

\* k copies of the text u
Repeat(u, k) == [i \in 1..(k * Len(u)) |-> u[((i - 1) % Len(u)) + 1]]

\* short texts: optional leading whitespace, a first word, a continuation
ShortTexts == {l \o h \o t : l \in Leads, h \in Heads, t \in Tails}

\* texts of 1 to MaxPadLines + 1 lines, with and without a final newline
PaddedTexts ==
    {h \o Repeat(<<"\n", "A", "-", "-", ">", "B">>, k) \o e :
        h \in {<<"g", "r", "a", "p", "h", " ", "T", "D">>, <<"x">>},
        k \in 0..MaxPadLines,
        e \in {<<>>, <<"\n">>}}

\* one-line and many-line texts around the character thresholds
LongTexts ==
    {Repeat(<<"x">>, n) : n \in ((500 - CharSlack)..(500 + CharSlack))
                               \cup ((1000 - CharSlack)..(1000 + CharSlack))}
    \cup {Repeat(<<"\n">>, k) \o Repeat(<<"x">>, c - k) :
             k \in {9, 10, 19, 20}, c \in {500, 501, 1000, 1001}}

\* f"{i}" for 0 <= i < 100
DecimalChars(i) ==
    LET digit == <<"0", "1", "2", "3", "4", "5", "6", "7", "8", "9">>
    IN  IF i < 10 THEN <<digit[i + 1]>>
        ELSE <<digit[(i \div 10) + 1], digit[(i % 10) + 1]>>

\* f"A{i} --> B{i}"
GeneratedLine(i) ==
    <<"A">> \o DecimalChars(i) \o <<" ", "-", "-", ">", " ", "B">> \o DecimalChars(i)

\* "\n".join(lines)
RECURSIVE JoinLines(_)
JoinLines(lines) ==
    IF lines = <<>> THEN <<>>
    ELSE IF Len(lines) = 1 THEN lines[1]
    ELSE lines[1] \o <<"\n">> \o JoinLines(Tail(lines))

\* "graph TD\n" + "\n".join([f"A{i} --> B{i}" for i in range(n)])
GeneratedGraph(n) ==
    <<"g", "r", "a", "p", "h", " ", "T", "D", "\n">>
        \o JoinLines([i \in 1..n |-> GeneratedLine(i - 1)])

\* the first of the complexity_cases of the helper test
T_single == <<"A", " ", "-", "-", ">", " ", "B">>

\* the sources of the complexity_cases of the helper test
ComplexityCases == {T_single, GeneratedGraph(15), GeneratedGraph(8)}

HeurTexts == ShortTexts \cup PaddedTexts \cup LongTexts \cup ComplexityCases

\* the optional diagram_type of suggest_mermaid_improvements
HeurTypes == {None, PyStr(""), PyStr("flowchart"), PyStr("sequence"), PyStr("pie")}

HeurOff ==
    [pc |-> "off", code |-> <<>>, diagram_type |-> None, fn |-> "",
     detected |-> "", complexity |-> "", suggestions |-> <<>>]

\* the source text handed to the heuristics
HeurInput(code) ==
    [pc |-> "input", code |-> code, diagram_type |-> None, fn |-> "",
     detected |-> "", complexity |-> "", suggestions |-> <<>>]

---------------------------------------------------------------------------
(* The heuristics as operations on one source text.                        *)

\* _detect_diagram_type(code) returns
HeurDetect ==
    /\ heur.pc = "input"
    /\ heur' = [heur EXCEPT !.pc = "returned", !.fn = "_detect_diagram_type",
                            !.detected = _detect_diagram_type(heur.code)]
    /\ UNCHANGED <<api_base_url, calls, sent>>

\* _estimate_complexity(code) returns
HeurEstimate ==
    /\ heur.pc = "input"
    /\ heur' = [heur EXCEPT !.pc = "returned", !.fn = "_estimate_complexity",
                            !.complexity = _estimate_complexity(heur.code)]
    /\ UNCHANGED <<api_base_url, calls, sent>>

\* the suggestion rules of _suggest_improvements have run, with or without
\* a diagram_type argument
HeurSuggest ==
    /\ heur.pc = "input"
    /\ \E diagram_type \in HeurTypes :
           heur' = [heur EXCEPT !.pc = "returned", !.fn = "_suggest_improvements",
                               !.diagram_type = diagram_type,
                               !.suggestions =
                                   Suggestions(heur.code,
                                               ResolveType(heur.code, diagram_type))]
    /\ UNCHANGED <<api_base_url, calls, sent>>

---------------------------------------------------------------------------
(* The tool registry and the values a handler works with.                  *)

\* handle_list_tools: the four tool descriptors (name, properties, required)
handle_list_tools ==
    << [name |-> "render_mermaid_svg", properties |-> {"code", "theme"},
        required |-> {"code"}],
       [name |-> "render_mermaid_png", properties |-> {"code", "theme", "scale"},
        required |-> {"code"}],
       [name |-> "validate_mermaid", properties |-> {"code"},
        required |-> {"code"}],
       [name |-> "suggest_mermaid_improvements", properties |-> {"code", "diagram_type"},
        required |-> {"code"}] >>

\* a handler's outcome: a list of content blocks returned, or an exception raised
Return(parts) ==
    [raised |-> FALSE, msg |-> "", value |-> << [type |-> "text", text |-> parts] >>]
Raise(msg) == [raised |-> TRUE, msg |-> msg, value |-> <<>>]

\* arguments.get(key, default)
Get(arguments, key, default) ==
    IF key \in DOMAIN arguments THEN arguments[key] ELSE default

\* f"{v}"
Fmt(v) ==
    CASE v.t = "str" -> v.s
      [] v.t = "int" -> ToString(v.n)
      [] v.t = "none" -> "None"
      [] v.t = "text" -> "<text>"

\* str(AttributeError) of v.<attr> on a value that is no str
NoAttribute(v, attr) ==
    "'" \o TypeName(v) \o "' object has no attribute '" \o attr \o "'"

\* what the awaited client.post(...) resolves to: a response, or an exception
HttpReply(status, ctype, body) ==
    [kind |-> "http", status |-> status, ctype |-> ctype, body |-> body, msg |-> ""]
TransportError(msg) ==
    [kind |-> "exc", status |-> 0, ctype |-> "", body |-> "", msg |-> msg]
NoOutcome == [kind |-> "none", status |-> 0, ctype |-> "", body |-> "", msg |-> ""]

\* str() of the httpx exception raised when the timeout of the call elapses
TimeoutMsg == ""

BODY_ERROR == "{\"error\": \"parse error\"}"
BODY_ERROR_TOOL == "{\"error\": \"Unknown tool: mermaid\"}"
BODY_EMPTY_OBJECT == "{}"
BODY_LIST == "[1]"
BODY_PLAIN == "Internal Server Error"
BODY_SVG == "<svg>A</svg>"

\* response.headers.get("content-type", "").startswith("application/json")
IsJsonContentType(ctype) ==
    ctype \in {"application/json", "application/json; charset=utf-8"}

\* response.json() on the bodies of the model
JsonOf(body) ==
    CASE body = BODY_ERROR ->
           [kind |-> "object", has_error |-> TRUE, error |-> "parse error"]
      [] body = BODY_ERROR_TOOL ->
           [kind |-> "object", has_error |-> TRUE, error |-> "Unknown tool: mermaid"]
      [] body = BODY_EMPTY_OBJECT ->
           [kind |-> "object", has_error |-> FALSE, error |-> ""]
      [] body = BODY_LIST ->
           [kind |-> "list", has_error |-> FALSE, error |-> ""]
      [] OTHER ->
           [kind |-> "invalid", has_error |-> FALSE, error |-> ""]

\* the error_data lines of the three HTTP handlers: the message they report
\* for a non-200 response, or the exception response.json() / .get raises
error_data_message(response) ==
    IF IsJsonContentType(response.ctype)
    THEN LET error_data == JsonOf(response.body)
         IN  IF error_data.kind = "invalid"
             THEN Raise("Expecting value: line 1 column 1 (char 0)")
             ELSE IF error_data.kind /= "object"
             THEN Raise("'list' object has no attribute 'get'")
             ELSE IF error_data.has_error
             THEN [raised |-> FALSE, msg |-> error_data.error, value |-> <<>>]
             ELSE [raised |-> FALSE, msg |-> "Unknown error", value |-> <<>>]
    ELSE [raised |-> FALSE, msg |-> response.body, value |-> <<>>]

\* base64.b64encode(data).decode() on the bodies of the model
Base64(body) ==
    CASE body = BODY_SVG -> "PHN2Zz5BPC9zdmc+"
      [] body = "" -> ""

\* f"{len(data) / 1024:.1f}"
KbStr(n) ==
    LET tenths == (n * 10 + 512) \div 1024
    IN  ToString(tenths \div 10) \o "." \o ToString(tenths % 10)

\* the request a handler posts
Request(url, json, timeout) == [url |-> url, json |-> json, timeout |-> timeout]
NoRequest == [url |-> "", json |-> [k \in {} |-> None], timeout |-> None]

\* how far a handler gets before it first suspends: it has posted a request
\* and awaits the outcome, or it is over (returned or raised) without one
Posted(code, theme, scale, request) ==
    [kind |-> "post", code |-> code, theme |-> theme, scale |-> scale,
     request |-> request, result |-> Raise("")]
Over(result) ==
    [kind |-> "over", code |-> None, theme |-> None, scale |-> None,
     request |-> NoRequest, result |-> result]

---------------------------------------------------------------------------
(* The handlers.  Each HTTP handler is two pieces: up to the awaited       *)
(* client.post, and from the outcome of that call to the end.  The leading *)
(* emoji of a response text is left out of its first piece and a Markdown  *)
(* code fence is written ~~~.                                              *)

\* client.post called with timeout=None
post_timeout_none(handler) == None

\* timeout= of the client.post of a handler
post_timeout(handler) == IF handler = "_validate_mermaid" THEN PyInt(15) ELSE PyInt(30)

\* _render_svg reading code with arguments.get("code")
_render_svg_post_get(base, arguments) ==
    LET code == Get(arguments, "code", None)
        theme == Get(arguments, "theme", PyStr("modern"))
    IN  Posted(code, theme, None,
               Request(base \o "/api/render/svg",
                       [k \in {"code", "theme"} |-> IF k = "code" THEN code ELSE theme],
                       PyInt(30)))

\* _render_svg up to the await
_render_svg_post(base, arguments) ==
    IF "code" \notin DOMAIN arguments THEN Over(Raise("'code'"))
    ELSE LET code == arguments["code"]
             theme == Get(arguments, "theme", PyStr("modern"))
         IN  Posted(code, theme, None,
                    Request(base \o "/api/render/svg",
                            [k \in {"code", "theme"} |->
                                IF k = "code" THEN code ELSE theme],
                            post_timeout("_render_svg")))

\* _render_svg from the outcome of the await
_render_svg_resume(code, theme, outcome) ==
    IF outcome.kind = "exc" THEN Raise(outcome.msg)
    ELSE IF outcome.status = 200
    THEN Return(<<"SVG diagram generated successfully! (",
                  ToString(Len(outcome.body)), " characters)\n\nTheme: ", Fmt(theme),
                  "\nThe SVG can be saved to a file or embedded directly in HTML.\n\nSVG Content:\n~~~svg\n",
                  outcome.body, "\n~~~">>)
    ELSE LET e == error_data_message(outcome)
         IN  IF e.raised THEN e
             ELSE Return(<<"Failed to render SVG: ", e.msg>>)

\* _render_png up to the await
_render_png_post(base, arguments) ==
    IF "code" \notin DOMAIN arguments THEN Over(Raise("'code'"))
    ELSE LET code == arguments["code"]
             theme == Get(arguments, "theme", PyStr("modern"))
             scale == Get(arguments, "scale", PyInt(2))
         IN  Posted(code, theme, scale,
                    Request(base \o "/api/render/png",
                            [k \in {"code", "theme", "scale"} |->
                                IF k = "code" THEN code
                                ELSE IF k = "theme" THEN theme ELSE scale],
                            post_timeout("_render_png")))

\* _render_png from the outcome of the await
_render_png_resume(code, theme, scale, outcome) ==
    IF outcome.kind = "exc" THEN Raise(outcome.msg)
    ELSE IF outcome.status = 200
    THEN Return(<<"PNG diagram generated successfully! (",
                  KbStr(Len(outcome.body)), " KB)\n\nTheme: ", Fmt(theme),
                  "\nScale: ", Fmt(scale),
                  "x\nThe PNG can be saved to a file or displayed in applications that support base64 images.\n\nTo save this PNG, decode the base64 data below:\n\n~~~base64\n",
                  Base64(outcome.body),
                  "\n~~~\n\nOr use this data URL in HTML:\n~~~html\n<img src=\"data:image/png;base64,",
                  Base64(outcome.body), "\" alt=\"Mermaid Diagram\">\n~~~">>)
    ELSE LET e == error_data_message(outcome)
         IN  IF e.raised THEN e
             ELSE Return(<<"Failed to render PNG: ", e.msg>>)

HINTS ==
    "\n\nCommon issues to check:\n- Proper diagram type declaration (graph, sequenceDiagram, etc.)\n- Correct arrow syntax (-->, ->>)\n- Balanced brackets and quotes\n- Valid node and edge definitions"

\* _validate_mermaid up to the await
_validate_mermaid_post(base, arguments) ==
    IF "code" \notin DOMAIN arguments THEN Over(Raise("'code'"))
    ELSE LET code == arguments["code"]
         IN  Posted(code, None, None,
                    Request(base \o "/api/render/svg",
                            [k \in {"code", "theme"} |->
                                IF k = "code" THEN code ELSE PyStr("modern")],
                            post_timeout("_validate_mermaid")))

\* _validate_mermaid from the outcome of the await
_validate_mermaid_resume(code, outcome) ==
    IF outcome.kind = "exc" THEN Raise(outcome.msg)
    ELSE IF outcome.status = 200
    THEN IF code.t /= "text" THEN Raise(NoAttribute(code, "lower"))
         ELSE Return(<<"Mermaid syntax is valid!\n\nDetected diagram type: ",
                       _detect_diagram_type(code.cs),
                       "\nThe diagram can be rendered successfully.\n\nCode analysis:\n- Lines: ",
                       ToString(Len(splitlines(code.cs))),
                       "\n- Characters: ", ToString(Len(code.cs)),
                       "\n- Estimated complexity: ", _estimate_complexity(code.cs)>>)
    ELSE LET e == error_data_message(outcome)
         IN  IF e.raised THEN e
             ELSE Return(<<"Mermaid syntax is invalid!\n\nError: ", e.msg, HINTS>>)

\* "\n".join(suggestions), as the pieces joined
Join(suggestions) ==
    [i \in 1..(2 * Len(suggestions) - 1) |->
        IF i % 2 = 1 THEN suggestions[(i + 1) \div 2] ELSE "\n"]

\* _suggest_improvements: it never suspends on an outbound call
_suggest_improvements(arguments) ==
    IF "code" \notin DOMAIN arguments THEN Raise("'code'")
    ELSE LET code == arguments["code"]
             given == Get(arguments, "diagram_type", None)
         IN  IF code.t /= "text"
             THEN Raise(NoAttribute(code, IF ~Truthy(given) THEN "lower" ELSE "strip"))
             ELSE LET diagram_type == ResolveType(code.cs, given)
                      suggestions == Suggestions(code.cs, diagram_type)
                  IN  Return(<<"Mermaid Code Analysis\n\nDiagram Type: ", Fmt(diagram_type),
                               "\nComplexity: ", _estimate_complexity(code.cs),
                               "\nLines: ", ToString(Len(splitlines(strip(code.cs)))),
                               "\n\nSuggestions for improvement:\n">>
                             \o Join(suggestions)
                             \o <<"\n\nAvailable themes: modern, classic, dark, minimal\nSupported diagram types: flowchart, sequence, class, state, gantt, pie, journey, git">>)

---------------------------------------------------------------------------
(* handle_call_tool.                                                       *)

\* the if/elif chain with the validate_mermaid branch misspelt
Route_misspelt(name) ==
    IF name = "render_mermaid_svg" THEN "_render_svg"
    ELSE IF name = "render_mermaid_png" THEN "_render_png"
    ELSE IF name = "validate-mermaid" THEN "_validate_mermaid"
    ELSE IF name = "suggest_mermaid_improvements" THEN "_suggest_improvements"
    ELSE ""

\* the handler the if/elif chain of handle_call_tool selects; "" for its else
Route(name) ==
    IF name = "render_mermaid_svg" THEN "_render_svg"
    ELSE IF name = "render_mermaid_png" THEN "_render_png"
    ELSE IF name = "validate_mermaid" THEN "_validate_mermaid"
    ELSE IF name = "suggest_mermaid_improvements" THEN "_suggest_improvements"
    ELSE ""

\* handle_call_tool whose suggest branch first has the renderer validate the code
handle_call_tool_post_validating(base, name, arguments) ==
    LET handler == Route(name)
    IN  IF handler = "_render_svg" THEN _render_svg_post(base, arguments)
        ELSE IF handler = "_render_png" THEN _render_png_post(base, arguments)
        ELSE IF handler \in {"_validate_mermaid", "_suggest_improvements"}
             THEN _validate_mermaid_post(base, arguments)
        ELSE Over(Raise("Unknown tool: " \o name))

\* the try block of handle_call_tool up to the first suspension of the handler
handle_call_tool_post(base, name, arguments) ==
    LET handler == Route(name)
    IN  IF handler = "_render_svg" THEN _render_svg_post(base, arguments)
        ELSE IF handler = "_render_png" THEN _render_png_post(base, arguments)
        ELSE IF handler = "_validate_mermaid" THEN _validate_mermaid_post(base, arguments)
        ELSE IF handler = "_suggest_improvements" THEN Over(_suggest_improvements(arguments))
        ELSE Over(Raise("Unknown tool: " \o name))

\* the try block of handle_call_tool from the outcome of the awaited call
handle_call_tool_resume(handler, code, theme, scale, outcome) ==
    IF handler = "_render_svg" THEN _render_svg_resume(code, theme, outcome)
    ELSE IF handler = "_render_png" THEN _render_png_resume(code, theme, scale, outcome)
    ELSE _validate_mermaid_resume(code, outcome)

\* handle_call_tool without its except clause: the exception leaves it
except_clause_missing(result) ==
    IF result.raised
    THEN [pc |-> "raised", response |-> <<>>]
    ELSE [pc |-> "done", response |-> result.value]

\* how handle_call_tool ends: with the handler's blocks, or in its
\* `except Exception` clause with one block "Error: <message>"
except_clause(result) ==
    IF result.raised
    THEN [pc |-> "done", response |-> << [type |-> "text", text |-> <<"Error: ", result.msg>>] >>]
    ELSE [pc |-> "done", response |-> result.value]

\* theme kept on the server object, where the dispatch that posted last wrote it
shared_theme(frames, d) ==
    IF \E e \in DOMAIN frames : e /= d /\ frames[e].pc = "awaiting"
    THEN frames[CHOOSE e \in DOMAIN frames : e /= d /\ frames[e].pc = "awaiting"].theme
    ELSE frames[d].theme

\* the local variable theme of the handler of dispatch d, read after the await
local_theme(frames, d) == frames[d].theme

---------------------------------------------------------------------------
(* The state machine: the transport delivers calls, each call runs as a    *)
(* coroutine that may suspend once on its outbound request, the rendering  *)
(* service (or the timeout) resolves the request, the response goes back.  *)

Dispatches == 1..NumDispatches

NoArguments == [k \in {} |-> None]

IdleFrame ==
    [pc |-> "idle", name |-> "", arguments |-> NoArguments, handler |-> "",
     code |-> None, theme |-> None, scale |-> None,
     outcome |-> NoOutcome, response |-> <<>>]

\* handle_call_tool(name, arguments) is entered by dispatch d and runs to its
\* first suspension, or to its end
Call(d, name, arguments) ==
    /\ calls[d].pc = "idle"
    /\ LET st == handle_call_tool_post(api_base_url, name, arguments)
           end == except_clause(st.result)
       IN  IF st.kind = "post"
           THEN /\ calls' = [calls EXCEPT ![d] =
                               [pc |-> "awaiting", name |-> name, arguments |-> arguments,
                                handler |-> Route(name),
                                code |-> st.code, theme |-> st.theme, scale |-> st.scale,
                                outcome |-> NoOutcome, response |-> <<>>]]
                /\ sent' = [sent EXCEPT ![d] = Append(@, st.request)]
           ELSE /\ calls' = [calls EXCEPT ![d] =
                               [pc |-> end.pc, name |-> name, arguments |-> arguments,
                                handler |-> Route(name),
                                code |-> None, theme |-> None, scale |-> None,
                                outcome |-> NoOutcome, response |-> end.response]]
                /\ sent' = sent
    /\ UNCHANGED <<api_base_url, heur>>

\* the frame of dispatch d after its awaited call resolved to outcome
Resumed(d, outcome) ==
    LET f == calls[d]
        end == except_clause(handle_call_tool_resume(f.handler, f.code, local_theme(calls, d),
                                                     f.scale, outcome))
    IN  [f EXCEPT !.pc = end.pc, !.outcome = outcome, !.response = end.response]

\* the awaited client.post of dispatch d resolves: the rendering service
\* answered, or the connection failed
Resume(d, outcome) ==
    /\ calls[d].pc = "awaiting"
    /\ calls' = [calls EXCEPT ![d] = Resumed(d, outcome)]
    /\ UNCHANGED <<api_base_url, sent, heur>>

\* the timeout of the awaited client.post of dispatch d elapses
Timeout(d) ==
    /\ calls[d].pc = "awaiting"
    /\ sent[d][Len(sent[d])].timeout.t = "int"
    /\ calls' = [calls EXCEPT ![d] = Resumed(d, TransportError(TimeoutMsg))]
    /\ UNCHANGED <<api_base_url, sent, heur>>

\* the transport takes the response of dispatch d; its frame is gone
Deliver(d) ==
    /\ calls[d].pc = "done"
    /\ calls' = [calls EXCEPT ![d] = IdleFrame]
    /\ sent' = [sent EXCEPT ![d] = <<>>]
    /\ UNCHANGED <<api_base_url, heur>>

---------------------------------------------------------------------------
(* The calls and the renderer behaviours of the model.                     *)

T_flow == <<"g", "r", "a", "p", "h", " ", "T", "D", "\n", "A", "-", "-", ">", "B">>
T_seq == <<"s", "e", "q", "u", "e", "n", "c", "e", "D", "i", "a", "g", "r", "a", "m">>

Names ==
    {handle_list_tools[i].name : i \in DOMAIN handle_list_tools}
    \cup {"delete_diagram", "RENDER_MERMAID_SVG"}

ArgKeys == {"code", "theme", "scale", "diagram_type"}

\* well-typed and ill-typed values of each argument
ArgValues(key) ==
    CASE key = "code" -> {PyText(T_flow), PyText(T_seq), PyText(<<>>), PyInt(5), None}
      [] key = "theme" -> {PyStr("dark"), PyStr("neon"), PyInt(7)}
      [] key = "scale" -> {PyInt(3), PyInt(9), PyStr("big")}
      [] key = "diagram_type" -> {PyStr("sequence"), PyStr(""), PyInt(7)}

AllValues == UNION {ArgValues(k) : k \in ArgKeys}

\* every mapping of some of the keys to one of its values
AllArguments ==
    UNION {{a \in [K -> AllValues] : \A k \in K : a[k] \in ArgValues(k)} : K \in SUBSET ArgKeys}

HttpReplies ==
    { HttpReply(200, "image/svg+xml", BODY_SVG),
      HttpReply(200, "", ""),
      HttpReply(500, "application/json", BODY_ERROR),
      HttpReply(400, "application/json; charset=utf-8", BODY_ERROR_TOOL),
      HttpReply(500, "application/json", BODY_EMPTY_OBJECT),
      HttpReply(500, "application/json", BODY_LIST),
      HttpReply(502, "application/json", BODY_PLAIN),
      HttpReply(500, "text/html", BODY_PLAIN),
      HttpReply(500, "text/plain", BODY_ERROR),
      HttpReply(404, "", "") }

TransportErrors ==
    { TransportError("All connection attempts failed"),
      TransportError("[Errno -2] Name or service not known") }

Outcomes == HttpReplies \cup TransportErrors

\* the calls and outcomes of the pipelined specification
ConcNames ==
    {"render_mermaid_svg", "render_mermaid_png", "validate_mermaid",
     "suggest_mermaid_improvements", "delete_diagram"}

ConcArguments ==
    { NoArguments,
      [k \in {"code"} |-> PyText(T_seq)],
      [k \in {"code", "theme"} |-> IF k = "code" THEN PyText(T_flow) ELSE PyStr("dark")] }

ConcOutcomes ==
    { HttpReply(200, "image/svg+xml", BODY_SVG),
      HttpReply(500, "application/json", BODY_ERROR),
      TransportError("All connection attempts failed") }

---------------------------------------------------------------------------
(* Specifications.                                                         *)

Init ==
    /\ api_base_url = "http://localhost:5000"
    /\ calls = [d \in Dispatches |-> IdleFrame]
    /\ sent = [d \in Dispatches |-> <<>>]
    /\ heur = HeurOff

\* the transport delivers one call at a time
CallNext ==
    /\ \A e \in Dispatches : calls[e].pc = "idle"
    /\ \E d \in Dispatches, name \in Names, arguments \in AllArguments :
           Call(d, name, arguments)

ResumeNext == \E d \in Dispatches, outcome \in Outcomes : Resume(d, outcome)

TimeoutNext == \E d \in Dispatches : Timeout(d)

DeliverNext == \E d \in Dispatches : Deliver(d)

Next == CallNext \/ ResumeNext \/ TimeoutNext \/ DeliverNext

Spec == Init /\ [][Next]_vars

\* the transport pipelines calls: dispatches interleave at their awaits
ConcCallNext ==
    \E d \in Dispatches, name \in ConcNames, arguments \in ConcArguments :
        Call(d, name, arguments)

ConcResumeNext == \E d \in Dispatches, outcome \in ConcOutcomes : Resume(d, outcome)

ConcNext == ConcCallNext \/ ConcResumeNext \/ TimeoutNext \/ DeliverNext

ConcSpec == Init /\ [][ConcNext]_vars

\* the timeout of an awaited call does elapse
LiveSpec == ConcSpec /\ \A d \in Dispatches : WF_vars(Timeout(d))

HeurInit ==
    /\ api_base_url = "http://localhost:5000"
    /\ calls = [d \in Dispatches |-> IdleFrame]
    /\ sent = [d \in Dispatches |-> <<>>]
    /\ \E code \in HeurTexts : heur = HeurInput(code)

HeurNext == HeurDetect \/ HeurEstimate \/ HeurSuggest

HeurSpec == HeurInit /\ [][HeurNext]_vars

---------------------------------------------------------------------------
(* Properties.                                                             *)

ListedNames == {handle_list_tools[i].name : i \in DOMAIN handle_list_tools}

HttpHandlers == {"_render_svg", "_render_png", "_validate_mermaid"}

\* the response is one block of kind "text" whose text begins "Error: "
ErrorShaped(response) ==
    /\ Len(response) = 1
    /\ response[1].type = "text"
    /\ response[1].text[1] = "Error: "

\* the failure block of a tool, carrying the failure message msg
FailureBlocks(handler, msg) ==
    << [type |-> "text",
        text |-> CASE handler = "_render_svg" -> <<"Failed to render SVG: ", msg>>
                   [] handler = "_render_png" -> <<"Failed to render PNG: ", msg>>
                   [] handler = "_validate_mermaid" ->
                        <<"Mermaid syntax is invalid!\n\nError: ", msg, HINTS>>] >>

\* C1: whatever the tool name, the argument mapping and the behaviour of the
\* rendering service, handle_call_tool ends by returning one response made of
\* exactly one content block of kind "text"; no exception leaves it.
C1_OneTextBlock ==
    \A d \in Dispatches :
        /\ calls[d].pc \in {"idle", "awaiting", "done"}
        /\ calls[d].pc = "done" =>
              /\ Len(calls[d].response) = 1
              /\ DOMAIN calls[d].response[1] = {"type", "text"}
              /\ calls[d].response[1].type = "text"
              /\ Len(calls[d].response[1].text) >= 1

\* C1 witness: validate_mermaid was given a code that is no str, the renderer
\* answered 200, the handler raised, and the response is the one Error block.
C1_Witness ==
    \E d \in Dispatches :
        /\ calls[d].pc = "done"
        /\ calls[d].handler = "_validate_mermaid"
        /\ calls[d].code.t = "int"
        /\ calls[d].outcome.kind = "http" /\ calls[d].outcome.status = 200
        /\ calls[d].response =
              << [type |-> "text",
                  text |-> <<"Error: ", "'int' object has no attribute 'lower'">>] >>

\* C2: for the three HTTP tools, a call that fails at the transport level or
\* times out is answered exactly as a non-200 reply carrying that failure
\* message is: with the tool's own failure block.
C2_TransportFailureAsNon200 ==
    \A d \in Dispatches :
        (calls[d].pc = "done" /\ calls[d].outcome.kind = "exc")
            => calls[d].response = FailureBlocks(calls[d].handler, calls[d].outcome.msg)

\* the message the claim C3 expects for a non-200 reply: the error field of a
\* JSON body that has one, the raw body otherwise
C3_Message(body) ==
    IF JsonOf(body).kind = "object" /\ JsonOf(body).has_error
    THEN JsonOf(body).error
    ELSE body

\* C3: for every non-200 reply the failure message of the response is the
\* error field when the body parses as JSON and has it, the raw body otherwise,
\* for the SVG, PNG and validation handlers alike.
C3_ErrorFieldOrRawBody ==
    \A d \in Dispatches :
        (/\ calls[d].pc = "done"
         /\ calls[d].outcome.kind = "http"
         /\ calls[d].outcome.status /= 200)
            => calls[d].response
                   = FailureBlocks(calls[d].handler, C3_Message(calls[d].outcome.body))

\* C4: a dispatch of a listed tool whose arguments lack `code` ends with an
\* error-shaped response and has issued no outbound request.
C4_MissingCode ==
    \A d \in Dispatches :
        (/\ calls[d].pc /= "idle"
         /\ calls[d].name \in ListedNames
         /\ "code" \notin DOMAIN calls[d].arguments)
            => /\ calls[d].pc = "done"
               /\ ErrorShaped(calls[d].response)
               /\ sent[d] = <<>>

\* C4 witness: render_mermaid_svg was called with a theme and no code.
C4_Witness ==
    \E d \in Dispatches :
        /\ calls[d].pc = "done"
        /\ calls[d].name = "render_mermaid_svg"
        /\ DOMAIN calls[d].arguments = {"theme"}
        /\ calls[d].response = << [type |-> "text", text |-> <<"Error: ", "'code'">>] >>
        /\ sent[d] = <<>>

\* the pieces of text of the model in which the words "Unknown tool" occur
ContainsUnknownTool(piece) ==
    piece \in {"Unknown tool: " \o n : n \in Names} \cup {"Unknown tool: mermaid"}

\* C5: the response starts with "Error: " and contains "Unknown tool" exactly
\* when the tool name is not one of the four listed names; every listed name
\* is routed to a handler; an unknown name triggers no outbound request.
C5_UnknownTool ==
    \A d \in Dispatches :
        /\ calls[d].pc = "done" =>
              LET text == calls[d].response[1].text
              IN  (/\ text[1] = "Error: "
                   /\ \E i \in DOMAIN text : ContainsUnknownTool(text[i]))
                      <=> calls[d].name \notin ListedNames
        /\ calls[d].pc /= "idle" =>
              /\ calls[d].name \in ListedNames =>
                    calls[d].handler \in HttpHandlers \cup {"_suggest_improvements"}
              /\ calls[d].name \notin ListedNames =>
                    /\ calls[d].handler = ""
                    /\ calls[d].pc = "done"
                    /\ sent[d] = <<>>

\* C5 witness: a name that differs from a listed one only in case is answered
\* as an unknown tool, arguments and all, without a request.
C5_Witness ==
    \E d \in Dispatches :
        /\ calls[d].pc = "done"
        /\ calls[d].name = "RENDER_MERMAID_SVG"
        /\ "code" \in DOMAIN calls[d].arguments
        /\ calls[d].response =
              << [type |-> "text",
                  text |-> <<"Error: ", "Unknown tool: RENDER_MERMAID_SVG">>] >>
        /\ sent[d] = <<>>

\* C6: every dispatch that is under way eventually has its response: the
\* awaited call resolves, by a reply or by its timeout, and that holds for
\* every later call too, however earlier dispatches failed.
C6_EveryDispatchAnswers ==
    \A d \in Dispatches :
        (calls[d].pc \notin {"idle", "done"}) ~> (calls[d].pc = "done")

\* C6 witness: the renderer never answered one dispatch, its timeout elapsed
\* and it has its response, while the server runs another dispatch.
C6_Witness ==
    \E d, e \in Dispatches :
        /\ calls[d].pc = "done"
        /\ calls[d].outcome = TransportError(TimeoutMsg)
        /\ ErrorShaped(calls[d].response)
        /\ calls[e].pc = "awaiting"

\* what handle_call_tool(name, arguments) returns when it runs alone and the
\* renderer's reply to its request is outcome
Expected(name, arguments, outcome) ==
    LET st == handle_call_tool_post("http://localhost:5000", name, arguments)
    IN  IF st.kind = "over" THEN except_clause(st.result).response
        ELSE except_clause(handle_call_tool_resume(Route(name), st.code, st.theme,
                                                   st.scale, outcome)).response

\* C7: with dispatches interleaved at their awaits, the response of each is a
\* function of its own tool name, its own arguments and the outcome of its own
\* request only, and the base URL of the server object is never modified.
C7_Independent ==
    /\ api_base_url = "http://localhost:5000"
    /\ \A d \in Dispatches :
          calls[d].pc = "done" =>
              calls[d].response
                  = Expected(calls[d].name, calls[d].arguments, calls[d].outcome)

\* C7 witness: a render with theme dark got its reply and its response while
\* another render, with the default theme, was suspended on its own request.
C7_Witness ==
    \E d, e \in Dispatches :
        /\ calls[d].pc = "done"
        /\ calls[d].handler = "_render_svg"
        /\ calls[d].theme = PyStr("dark")
        /\ calls[d].outcome.kind = "http" /\ calls[d].outcome.status = 200
        /\ calls[e].pc = "awaiting"
        /\ calls[e].theme = PyStr("modern")

\* the number of lines of a text: its line boundaries, and one more for
\* characters after the last boundary
LineCount(code) ==
    Cardinality(BreakEnds(code))
        + (IF Len(code) > 0 /\ Len(code) \notin BreakEnds(code) THEN 1 ELSE 0)

DiagramTypes ==
    {"flowchart", "sequence", "class", "state", "gantt", "pie", "journey", "git", "unknown"}

\* C9: _detect_diagram_type returns one of the nine values; on the trimmed,
\* lower-cased text it returns the type of the keyword the text starts with
\* and unknown when it starts with none.
C9_PrefixTable ==
    (heur.pc = "returned" /\ heur.fn = "_detect_diagram_type") =>
        LET text == lower(strip(heur.code))
            r == heur.detected
        IN  /\ r \in DiagramTypes
            /\ r = "sequence" <=> startswith(text, S_sequencediagram)
            /\ r = "class" <=> startswith(text, S_classdiagram)
            /\ r = "state" <=> startswith(text, S_statediagram)
            /\ r = "gantt" <=> startswith(text, S_gantt)
            /\ r = "pie" <=> startswith(text, S_pie)
            /\ r = "journey" <=> startswith(text, S_journey)
            /\ r = "git" <=> startswith(text, S_gitgraph)
            /\ r = "flowchart" <=>
                  (startswith(text, S_graph) \/ startswith(text, S_flowchart))

\* C9 witness: an upper-case keyword after leading whitespace was recognised.
C9_Witness ==
    /\ heur.pc = "returned" /\ heur.fn = "_detect_diagram_type"
    /\ startswith(heur.code, <<"\n", "\t", "C", "L", "A", "S", "S", "D">>)
    /\ heur.detected = "class"

\* the suggestions of rules 1 to 7
RuleSuggestions ==
    {SUG_EMPTY, SUG_MISSING, SUG_DIRECTION, SUG_STYLING, SUG_SPLIT,
     SUG_ARROWS, SUG_SHAPES, SUG_PARTICIPANTS, SUG_NOTES}

\* C10: the suggestion rules return at least one suggestion; the fallback is
\* in the list exactly when no suggestion of rules 1 to 7 is, and then alone;
\* for an empty or all-blank source the list holds the empty-code suggestion.
C10_Suggestions ==
    (heur.pc = "returned" /\ heur.fn = "_suggest_improvements") =>
        LET listed == {heur.suggestions[i] : i \in DOMAIN heur.suggestions}
        IN  /\ Len(heur.suggestions) >= 1
            /\ listed \subseteq RuleSuggestions \cup {SUG_GOOD}
            /\ SUG_GOOD \in listed <=> listed \cap RuleSuggestions = {}
            /\ SUG_GOOD \in listed => heur.suggestions = <<SUG_GOOD>>
            /\ (\A i \in DOMAIN heur.code : heur.code[i] \in Whitespace)
                  => SUG_EMPTY \in listed

\* C10 witness: a source of blanks only, analysed as a flowchart, got the
\* empty-code suggestion and no fallback.
C10_Witness ==
    /\ heur.pc = "returned" /\ heur.fn = "_suggest_improvements"
    /\ heur.code = <<"\n", "\t", " ">>
    /\ heur.diagram_type = PyStr("flowchart")
    /\ heur.suggestions = <<SUG_EMPTY, SUG_ARROWS, SUG_SHAPES>>

\* C11: as the helper test expects, _estimate_complexity returns Low for
\* "A --> B", High for "graph TD" followed by 15 generated lines (16 lines)
\* and Medium for "graph TD" followed by 8 generated lines (9 lines).
C11_TestExpectations ==
    (heur.pc = "returned" /\ heur.fn = "_estimate_complexity") =>
        /\ heur.code = T_single => heur.complexity = "Low"
        /\ heur.code = GeneratedGraph(15) => heur.complexity = "High"
        /\ heur.code = GeneratedGraph(8) => heur.complexity = "Medium"

\* the requests a dispatch of the model has issued so far are as C12 says
C12_Requests(d) ==
    /\ Len(sent[d]) <= 1
    /\ calls[d].pc = "idle" => sent[d] = <<>>
    /\ (/\ calls[d].pc /= "idle"
        /\ calls[d].handler \in HttpHandlers
        /\ "code" \in DOMAIN calls[d].arguments) => Len(sent[d]) = 1
    /\ calls[d].handler = "_suggest_improvements" => sent[d] = <<>>

\* C12: a dispatch issues at most one outbound request: exactly one for the
\* three HTTP tools when `code` is present, none for
\* suggest_mermaid_improvements; and the step that resolves its request, by a
\* reply, a failure or the timeout, ends it with its response and issues no
\* further request.
C12_OneRequestNoRetry ==
    /\ [](\A d \in Dispatches : C12_Requests(d))
    /\ [][\A d \in Dispatches :
            (calls[d].pc = "awaiting" /\ calls'[d] /= calls[d])
                => /\ calls'[d].pc = "done"
                   /\ Len(calls'[d].response) = 1
                   /\ sent'[d] = sent[d]]_vars

\* C12 witness: the one request of a validate_mermaid dispatch, posted with
\* the 15 s timeout, timed out and the dispatch ended with its response.
C12_Witness ==
    \E d \in Dispatches :
        /\ calls[d].pc = "done"
        /\ calls[d].handler = "_validate_mermaid"
        /\ calls[d].outcome = TransportError(TimeoutMsg)
        /\ Len(sent[d]) = 1
        /\ sent[d][1].timeout = PyInt(15)
        /\ calls[d].response = << [type |-> "text", text |-> <<"Error: ", TimeoutMsg>>] >>

\* the themes and the scales RenderRequest admits
RenderThemes == {PyStr("modern"), PyStr("classic"), PyStr("dark"), PyStr("minimal")}

RenderScales == {PyInt(1), PyInt(2), PyInt(3), PyInt(4)}

\* C13: every request sent to the rendering service conforms to
\* RenderRequest: its theme is one of modern, classic, dark, minimal (modern
\* when the caller omitted theme, always modern for validate_mermaid) and, on
\* the PNG endpoint, its scale is an integer in 1..4 (2 when the caller
\* omitted scale), whatever arguments the caller supplied.
C13_RequestsConform ==
    \A d \in Dispatches :
        \A i \in DOMAIN sent[d] :
            LET json == sent[d][i].json
                arguments == calls[d].arguments
            IN  /\ json["theme"] \in RenderThemes
                /\ "theme" \notin DOMAIN arguments => json["theme"] = PyStr("modern")
                /\ calls[d].handler = "_validate_mermaid" => json["theme"] = PyStr("modern")
                /\ calls[d].handler = "_render_png" =>
                       /\ json["scale"] \in RenderScales
                       /\ "scale" \notin DOMAIN arguments => json["scale"] = PyInt(2)

====
